---- MODULE Spec2Model ----
(***************************************************************************)
(* Model of the rustweb2 server process (src/src/main.rs): the main task   *)
(* that spawns the role-dependent background tasks and the accept loop,    *)
(* the writer thread that owns the database (the single-writer Executor),  *)
(* the bounded mpsc channel that feeds it, and the submitters (connection  *)
(* handlers and, on a replica, the sync task).                             *)
(***************************************************************************)
EXTENDS Integers, Sequences, FiniteSets, TLC

\* ------------------------------------------------------------------ bounds
\* Number of submitters in one run: the inbound connections the accept loop
\* hands out and, on a replica, the sync task.
MaxSubmitters == 2
\* Number of master log entries the replica's sync task pulls in one run.
MaxStream == 2
\* The database content is one counter modulo ValMod.
ValMod == 3

\* Largest Dos limit given on the command line in the runs explored.
MaxDosLimit == 2
\* Requests of the client in one run of the Dos accounting on its own.
MaxReq == 4
\* Completions whose observed cost is added in one such run.
MaxComplete == 2
\* Largest observed cost of one completion, per counter.
MaxCost == 2
\* Decay sweeps in a row without a request or completion in between.
MaxSweeps == 2
\* What one decay sweep takes off every counter.
DosDecayStep == 1

\* mpsc::channel::<share::ServerMessage>(1)
ChanCap == 1

\* The submitter index of the replica's sync task (connections are 1, 2, ..).
SyncSubmitter == 0

Conns == 1..MaxSubmitters
Submitters == {SyncSubmitter} \cup Conns

VARIABLES
  is_master,  \* args.rep.is_empty()
  is_new,     \* db.is_new: the database file did not exist at startup
  args,       \* the Dos limits of the command line
  dos,        \* SharedState.dos: the counters of the client's ip
  dh,         \* bookkeeping of the client's requests, completions and sweeps
  mpc,        \* position of main
  tasks,      \* background tasks spawned so far
  wpc,        \* position of the writer thread
  sm,         \* the ServerMessage the writer thread is processing
  chan,       \* buffer of the mpsc channel (tx, rx)
  sub,        \* per submitter: state of its request and its work item
  mem,        \* the database as the writer handle sees it
  pre,        \* the database as of the writer's last save (the rollback target)
  disk,       \* the database as persisted by the AtomicFile
  err,        \* the engine's error flag of the current transaction
  dirty,      \* pages changed and not yet saved
  updates,    \* the writer's local `updates`
  sent,       \* the broadcast made for the current item: none, ok or err
  sync_ch,    \* the oneshot (sync_tx, sync_rx)
  syncSt,     \* state of the replica's sync task
  spos,       \* master log entries pulled by the sync task
  accepted,   \* ids in the order the channel accepted the work items
  seqdb,      \* the database of a reference that runs each item as it is accepted
  executed,   \* ids in the order the writer ran them
  replied,    \* ids in the order the writer sent replies
  saveFailed  \* a save did not reach the storage

roleVars == << is_master, is_new, args >>
dosVars  == << dos, dh >>
mainVars == << mpc, tasks >>
dbVars   == << mem, pre, disk, err, dirty >>
syncVars == << sync_ch, syncSt, spos >>
histVars == << accepted, seqdb, executed, replied >>

srvVars == << mainVars, wpc, sm, chan, sub, dbVars, updates, sent, syncVars,
              histVars, saveFailed >>

vars == << roleVars, dosVars, mainVars, wpc, sm, chan, sub, dbVars, updates, sent,
           syncVars, histVars, saveFailed >>

\* ------------------------------------------------------------- the queries
NoItem == [id |-> 0, op |-> "none", arg |-> 0, log |-> FALSE, from |-> 0,
           error |-> FALSE]

\* The requests a connection may submit: a statement that adds (flagged logged
\* or not), one that overwrites, one that only reads, and one that changes a
\* page and then fails.
Requests == { [op |-> "add", arg |-> 1, log |-> TRUE],
              [op |-> "add", arg |-> 1, log |-> FALSE],
              [op |-> "set", arg |-> 2, log |-> TRUE],
              [op |-> "read", arg |-> 0, log |-> TRUE],
              [op |-> "bad", arg |-> 1, log |-> TRUE] }

\* The statement the sync task submits to seed a new replica: it creates the
\* schema and the master's state as of before its first log entry.
SeedQuery == [op |-> "seed", arg |-> 0]

OpCode(op) ==
  CASE op = "add" -> 1 [] op = "set" -> 2 [] op = "read" -> 3
    [] op = "bad" -> 4 [] op = "seed" -> 5 [] OTHER -> 0

CodeOp(n) ==
  CASE n = 1 -> "add" [] n = 2 -> "set" [] n = 3 -> "read"
    [] n = 4 -> "bad" [] n = 5 -> "seed" [] OTHER -> "none"

Qy(it) == [op |-> it.op, arg |-> it.arg]

\* rmp_serde::to_vec(&sm.st.x.qy): the query as a byte string.
Ser_dropArg(q) == << OpCode(q.op), 0 >>
Ser(q) == << OpCode(q.op), q.arg >>

\* rmp_serde::from_slice: the query back from the byte string.
Deser(b) == [op |-> CodeOp(b[1]), arg |-> b[2]]

\* The master's log as the replica's sync task reads it.
MasterLog == [i \in 1..MaxStream |->
                Ser(IF i % 2 = 1 THEN [op |-> "add", arg |-> 1]
                                 ELSE [op |-> "set", arg |-> 2])]

\* -------------------------------------------------------------- the engine
\* The database file before startup.
DiskAtStart(new) == [val |-> 0, log |-> << >>, hasLog |-> ~new]

\* Database::new(wapd, if is_master { init::INITSQL } else { "" }, bmap):
\* the init SQL runs on a new database only and creates log.Transaction.
DbNew(d, master, new) == IF master /\ new THEN [d EXCEPT !.hasLog = TRUE] ELSE d

\* db.run(&sql, &mut sm.st.x): the database after the statement.
DbRun(d, q) ==
  CASE q.op = "add"  -> [d EXCEPT !.val = (d.val + q.arg) % ValMod]
    [] q.op = "set"  -> [d EXCEPT !.val = q.arg % ValMod]
    [] q.op = "bad"  -> [d EXCEPT !.val = (d.val + q.arg) % ValMod]
    [] q.op = "seed" -> [d EXCEPT !.val = q.arg % ValMod, !.hasLog = TRUE]
    [] OTHER -> d

\* db.run: the statement ended in an error (recorded in the transaction).
DbRunErr(q) == q.op = "bad"

\* db.run: pages the statement changed.
DbRunDirty(d, q) == IF DbRun(d, q) # d THEN 1 ELSE 0

\* db.changed(): unsaved changes of a transaction that did not fail.
DbChanged_ignoreErr(e, n) == n > 0
DbChanged(e, n) == ~e /\ n > 0

\* sm.st.log && db.changed()
LogCond_ignoreFlag(it, e, n) == DbChanged(e, n)
LogCond_ignoreChanged(it, e, n) == it.log
LogCond(it, e, n) == it.log /\ DbChanged(e, n)

\* t.insert(&db, &mut row) on log.Transaction, when db.get_table finds it.
LogInsert_front(d, it) ==
  IF d.hasLog THEN [d EXCEPT !.log = << Ser(Qy(it)) >> \o d.log] ELSE d
LogInsert(d, it) ==
  IF d.hasLog THEN [d EXCEPT !.log = Append(d.log, Ser(Qy(it)))] ELSE d

\* db.save(): what reaches the file; a failed transaction writes nothing.
DbSaveDisk_noRollback(m, d, e) == m
DbSaveDisk(m, d, e) == IF e THEN d ELSE m

\* db.save(): the in-memory database afterwards; a failed transaction is
\* rolled back to the state b the transaction started from.
DbSaveMem(m, b, e) == IF e THEN b ELSE m

\* db.save(): the number of pages updated.
DbSaveCount(e, n) == IF e THEN 0 ELSE n

\* if updates > 0 { let _ = ss.wait_tx.send(()); }
NotifyCond_always(u) == u >= 0
NotifyCond(u) == u > 0

\* One work item from dequeue to reply, as a function of the database.
ExecItem(d, it) ==
  LET q  == Qy(it)
      m1 == DbRun(d, q)
      e  == DbRunErr(q)
      n  == DbRunDirty(d, q)
      m2 == IF LogCond(it, e, n) THEN LogInsert(m1, it) ELSE m1
  IN  DbSaveMem(m2, d, e)

RECURSIVE ApplySeq(_, _)
ApplySeq(d, items) ==
  IF items = << >> THEN d
  ELSE ApplySeq(ExecItem(d, Head(items)), Tail(items))

\* ------------------------------------------------------------- the channel
\* A send completes only while the buffer holds fewer than ChanCap messages.
ChanHasRoom_plusOne(ch) == Len(ch) < ChanCap + 1
ChanHasRoom(ch) == Len(ch) < ChanCap

\* rx.blocking_recv() removes the message it returns.
ChanPop_keep(ch) == ch
ChanPop(ch) == Tail(ch)

\* The receiver _wait_rx lives as long as main.
WaitRxAlive == mpc # "exited"

\* ------------------------------------------------------ the Dos accounting
\* dos_limit: [args.dos_count, args.dos_read, args.dos_cpu, args.dos_write]
dos_limit_swapped ==
  << args.dos_read, args.dos_count, args.dos_cpu, args.dos_write >>
dos_limit ==
  << args.dos_count, args.dos_read, args.dos_cpu, args.dos_write >>

\* The four counters of a record: request count, bytes read, cpu, bytes written.
Counters == 1..4

\* A record created on first contact.
DosZero == [i \in Counters |-> 0]

\* The cost a request is charged before it is admitted: one request.
EstCost == [i \in Counters |-> IF i = 1 THEN 1 ELSE 0]

\* The costs observed at the completion of a request.
ActualCosts ==
  { [i \in Counters |-> IF i = j THEN k ELSE 0] : j \in 2..4, k \in 1..MaxCost }

DosAdd(u, c) == [i \in Counters |-> u[i] + c[i]]

\* Some counter is over its limit.
DosExceeds(u, lim) == \E i \in Counters : u[i] > lim[i]

\* One sweep of the decay job over a record.
DosDecayRecord_noFloor(u) == [i \in Counters |-> u[i] - DosDecayStep]
DosDecayRecord(u) ==
  [i \in Counters |-> IF u[i] > DosDecayStep THEN u[i] - DosDecayStep ELSE 0]

\* The limits of the runs of the whole server: the last connection of a run
\* is over the request-count limit unless a sweep came in between.
ArgsOfRun == [dos_count |-> MaxSubmitters - 1, dos_read |-> MaxDosLimit,
              dos_cpu |-> MaxDosLimit, dos_write |-> MaxDosLimit]

\* The limits of the runs of the Dos accounting on its own.
DosArgs == { [dos_count |-> a, dos_read |-> b, dos_cpu |-> b, dos_write |-> b] :
             a \in 1..MaxDosLimit, b \in 1..MaxDosLimit }

DhInit == [req |-> 0, adm |-> 0, done |-> 0, res |-> "none", base |-> DosZero,
           sweeps |-> 0, quiet |-> TRUE]

\* The requests a connection submits: on a replica local traffic only reads.
LocalRequests(master) ==
  IF master THEN Requests ELSE { q \in Requests : q.op = "read" }

\* -------------------------------------------------------------------- Init
InitServer ==
  /\ is_master \in BOOLEAN
  /\ is_new \in BOOLEAN
  /\ mpc = "spawn_role"
  /\ tasks = {}
  /\ wpc = "unstarted"
  /\ sm = NoItem
  /\ chan = << >>
  /\ sub = [s \in Submitters |-> [st |-> "none", it |-> NoItem]]
  /\ disk = DiskAtStart(is_new)
  /\ mem = DiskAtStart(is_new)
  /\ pre = DiskAtStart(is_new)
  /\ err = FALSE
  /\ dirty = 0
  /\ updates = 0
  /\ sent = "none"
  /\ sync_ch = "empty"
  /\ syncSt = "Uninitialized"
  /\ spos = 0
  /\ accepted = << >>
  /\ seqdb = DbNew(DiskAtStart(is_new), is_master, is_new)
  /\ executed = << >>
  /\ replied = << >>
  /\ saveFailed = FALSE
  /\ dos = DosZero
  /\ dh = DhInit

Init == args = ArgsOfRun /\ InitServer

\* -------------------------------------------------------------------- main
\* if is_master { spawn email_loop; spawn sleep_loop } else { spawn sync_loop }
MainSpawnRole_allJobs ==
  /\ mpc = "spawn_role"
  /\ tasks' = tasks \cup {"email", "sleep", "sync"}
  /\ syncSt' = IF is_master THEN syncSt ELSE "Handshaking"
  /\ sub' = IF is_master THEN sub
            ELSE [sub EXCEPT ![SyncSubmitter].st = "idle"]
  /\ mpc' = "spawn_decay"
  /\ UNCHANGED << roleVars, dosVars, wpc, sm, chan, dbVars, updates, sent, sync_ch, spos,
                  histVars, saveFailed >>

MainSpawnRole ==
  /\ mpc = "spawn_role"
  /\ tasks' = tasks \cup (IF is_master THEN {"email", "sleep"} ELSE {"sync"})
  /\ syncSt' = IF is_master THEN syncSt ELSE "Handshaking"
  /\ sub' = IF is_master THEN sub
            ELSE [sub EXCEPT ![SyncSubmitter].st = "idle"]
  /\ mpc' = "spawn_decay"
  /\ UNCHANGED << roleVars, dosVars, wpc, sm, chan, dbVars, updates, sent, sync_ch, spos,
                  histVars, saveFailed >>

\* tokio::spawn(u_decay_loop)
MainSpawnDecay ==
  /\ mpc = "spawn_decay"
  /\ tasks' = tasks \cup {"decay"}
  /\ mpc' = "spawn_writer"
  /\ UNCHANGED << roleVars, dosVars, wpc, sm, chan, sub, dbVars, updates, sent, syncVars,
                  histVars, saveFailed >>

\* thread::spawn(move || { ... })
MainSpawnWriter ==
  /\ mpc = "spawn_writer"
  /\ tasks' = tasks \cup {"writer"}
  /\ wpc' = "dbnew"
  /\ mpc' = "bind"
  /\ UNCHANGED << roleVars, dosVars, sm, chan, sub, dbVars, updates, sent, syncVars,
                  histVars, saveFailed >>

\* TcpListener::bind(listen).await?
MainBind ==
  /\ mpc = "bind"
  /\ mpc' \in {"accept", "exited"}
  /\ UNCHANGED << roleVars, dosVars, tasks, wpc, sm, chan, sub, dbVars, updates, sent,
                  syncVars, histVars, saveFailed >>

\* listener.accept().await? followed by tokio::spawn(request::process(..))
MainAccept ==
  /\ mpc = "accept"
  /\ \E c \in Conns :
       /\ sub[c].st = "none"
       /\ c <= (IF is_master THEN MaxSubmitters ELSE MaxSubmitters - 1)
       /\ \A b \in Conns : b < c => sub[b].st # "none"
       /\ sub' = [sub EXCEPT ![c].st = "open"]
  /\ UNCHANGED << roleVars, dosVars, mainVars, wpc, sm, chan, dbVars, updates, sent,
                  syncVars, histVars, saveFailed >>

\* listener.accept().await? returns the error: main returns, _wait_rx is dropped.
MainAcceptErr ==
  /\ mpc = "accept"
  /\ mpc' = "exited"
  /\ UNCHANGED << roleVars, dosVars, tasks, wpc, sm, chan, sub, dbVars, updates, sent,
                  syncVars, histVars, saveFailed >>

\* ------------------------------------------------------- the writer thread
\* Database::new(wapd, ..): open the file, create the schema of a new master.
WriterDbNew ==
  /\ wpc = "dbnew"
  /\ mem' = DbNew(disk, is_master, is_new)
  /\ pre' = DbNew(disk, is_master, is_new)
  /\ disk' = DbNew(disk, is_master, is_new)
  /\ wpc' = IF is_master THEN "recv" ELSE "syncsend"
  /\ UNCHANGED << roleVars, dosVars, mainVars, sm, chan, sub, err, dirty, updates, sent,
                  syncVars, histVars, saveFailed >>

\* if !is_master { let _ = sync_tx.send(db.is_new); }
WriterSyncSend_negated ==
  /\ wpc = "syncsend"
  /\ sync_ch' = IF is_new THEN "old" ELSE "new"
  /\ wpc' = "recv"
  /\ UNCHANGED << roleVars, dosVars, mainVars, sm, chan, sub, dbVars, updates, sent,
                  syncSt, spos, histVars, saveFailed >>

WriterSyncSend ==
  /\ wpc = "syncsend"
  /\ sync_ch' = IF is_new THEN "new" ELSE "old"
  /\ wpc' = "recv"
  /\ UNCHANGED << roleVars, dosVars, mainVars, sm, chan, sub, dbVars, updates, sent,
                  syncSt, spos, histVars, saveFailed >>

\* let mut sm = rx.blocking_recv().unwrap();
WriterRecv ==
  /\ wpc = "recv"
  /\ chan # << >>
  /\ sm' = Head(chan)
  /\ chan' = ChanPop(chan)
  /\ wpc' = "run"
  /\ UNCHANGED << roleVars, dosVars, mainVars, sub, dbVars, updates, sent, syncVars,
                  histVars, saveFailed >>

\* db.run(&sql, &mut sm.st.x);
WriterRun ==
  /\ wpc = "run"
  /\ mem' = DbRun(mem, Qy(sm))
  /\ err' = DbRunErr(Qy(sm))
  /\ dirty' = DbRunDirty(mem, Qy(sm))
  /\ sm' = [sm EXCEPT !.error = DbRunErr(Qy(sm))]
  /\ executed' = Append(executed, sm.id)
  /\ wpc' = "log"
  /\ UNCHANGED << roleVars, dosVars, mainVars, chan, sub, pre, disk, updates, sent,
                  syncVars, accepted, seqdb, replied, saveFailed >>

\* if sm.st.log && db.changed() { if let Some(t) = db.get_table(..) { insert } }
WriterLog_skipSave ==
  /\ wpc = "log"
  /\ IF LogCond(sm, err, dirty)
       THEN /\ mem' = LogInsert(mem, sm)
            /\ dirty' = IF mem.hasLog THEN dirty + 1 ELSE dirty
       ELSE UNCHANGED << mem, dirty >>
  /\ wpc' = "notify"
  /\ UNCHANGED << roleVars, dosVars, mainVars, sm, chan, sub, pre, disk, err, updates,
                  sent, syncVars, histVars, saveFailed >>

WriterLog ==
  /\ wpc = "log"
  /\ IF LogCond(sm, err, dirty)
       THEN /\ mem' = LogInsert(mem, sm)
            /\ dirty' = IF mem.hasLog THEN dirty + 1 ELSE dirty
       ELSE UNCHANGED << mem, dirty >>
  /\ wpc' = "save"
  /\ UNCHANGED << roleVars, dosVars, mainVars, sm, chan, sub, pre, disk, err, updates,
                  sent, syncVars, histVars, saveFailed >>

\* let updates = db.save(); the storage takes the pages, or fails to: the
\* failure either unwinds the thread or goes unseen by the caller.
WriterSave ==
  /\ wpc = "save"
  /\ \E outcome \in {"stored", "lost", "panic"} :
       /\ outcome # "stored" => DbSaveCount(err, dirty) > 0
       /\ disk' = IF outcome = "stored" THEN DbSaveDisk(mem, disk, err) ELSE disk
       /\ mem' = IF outcome = "panic" THEN mem ELSE DbSaveMem(mem, pre, err)
       /\ pre' = IF outcome = "panic" THEN pre ELSE DbSaveMem(mem, pre, err)
       /\ updates' = IF outcome = "panic" THEN updates ELSE DbSaveCount(err, dirty)
       /\ err' = IF outcome = "panic" THEN err ELSE FALSE
       /\ dirty' = IF outcome = "panic" THEN dirty ELSE 0
       /\ saveFailed' = (saveFailed \/ outcome # "stored")
       /\ wpc' = IF outcome = "panic" THEN "panicked" ELSE "notify"
  /\ UNCHANGED << roleVars, dosVars, mainVars, sm, chan, sub, sent, syncVars, histVars >>

\* if updates > 0 { let _ = ss.wait_tx.send(()); }
WriterNotify ==
  /\ wpc = "notify"
  /\ sent' = IF NotifyCond(updates)
               THEN (IF WaitRxAlive THEN "ok" ELSE "err")
               ELSE sent
  /\ wpc' = "reply"
  /\ UNCHANGED << roleVars, dosVars, mainVars, sm, chan, sub, dbVars, updates, syncVars,
                  histVars, saveFailed >>

\* The receiver of sm.reply is still waiting for this item.
ReplyRxAlive(it) == sub[it.from].st = "awaiting" /\ sub[it.from].it.id = it.id

\* What the receiver of the reply keeps of sm.st: which item, and its error.
ReplyOf(it) == [NoItem EXCEPT !.id = it.id, !.error = it.error]

\* let _x = sm.reply.send(sm.st); a send to a dropped receiver is ignored, and
\* the loop goes back to blocking_recv.
WriterReply_unwrap ==
  /\ wpc = "reply"
  /\ replied' = Append(replied, sm.id)
  /\ IF ReplyRxAlive(sm)
       THEN /\ sub' = [sub EXCEPT ![sm.from] = [st |-> "done", it |-> ReplyOf(sm)]]
            /\ wpc' = "recv"
            /\ sm' = NoItem
            /\ updates' = 0
            /\ sent' = "none"
       ELSE /\ wpc' = "panicked"
            /\ UNCHANGED << sub, sm, updates, sent >>
  /\ UNCHANGED << roleVars, dosVars, mainVars, chan, dbVars, syncVars, accepted, seqdb,
                  executed, saveFailed >>

WriterReply_skipUnchanged ==
  /\ wpc = "reply"
  /\ replied' = IF updates > 0 THEN Append(replied, sm.id) ELSE replied
  /\ IF ReplyRxAlive(sm) /\ updates > 0
       THEN sub' = [sub EXCEPT ![sm.from] = [st |-> "done", it |-> ReplyOf(sm)]]
       ELSE UNCHANGED sub
  /\ wpc' = "recv"
  /\ sm' = NoItem
  /\ updates' = 0
  /\ sent' = "none"
  /\ UNCHANGED << roleVars, dosVars, mainVars, chan, dbVars, syncVars, accepted, seqdb,
                  executed, saveFailed >>

WriterReply ==
  /\ wpc = "reply"
  /\ replied' = Append(replied, sm.id)
  /\ IF ReplyRxAlive(sm)
       THEN sub' = [sub EXCEPT ![sm.from] = [st |-> "done", it |-> ReplyOf(sm)]]
       ELSE UNCHANGED sub
  /\ wpc' = "recv"
  /\ sm' = NoItem
  /\ updates' = 0
  /\ sent' = "none"
  /\ UNCHANGED << roleVars, dosVars, mainVars, chan, dbVars, syncVars, accepted, seqdb,
                  executed, saveFailed >>

\* ---------------------------------------------------------- the submitters
\* A connection handler charges the request to the client's record; over a
\* limit it answers with the Dos error, else it builds its work item and starts
\* tx.send(..).
ConnSubmit_queueRejected(c) ==
  /\ sub[c].st = "open"
  /\ LET u == DosAdd(dos, EstCost) IN
       IF DosExceeds(u, dos_limit)
         THEN /\ dos' = dos
              /\ sub' = [sub EXCEPT ![c] = [st |-> "rejected", it |-> NoItem]]
              /\ chan' = Append(chan, [NoItem EXCEPT !.op = "read", !.from = c])
         ELSE /\ dos' = u
              /\ chan' = chan
              /\ \E q \in LocalRequests(is_master) :
                   sub' = [sub EXCEPT ![c] =
                             [st |-> "sending",
                              it |-> [id |-> 0, op |-> q.op, arg |-> q.arg,
                                      log |-> q.log, from |-> c,
                                      error |-> FALSE]]]
  /\ UNCHANGED << roleVars, dh, mainVars, wpc, sm, dbVars, updates, sent,
                  syncVars, histVars, saveFailed >>

ConnSubmit(c) ==
  /\ sub[c].st = "open"
  /\ LET u == DosAdd(dos, EstCost) IN
       IF DosExceeds(u, dos_limit)
         THEN /\ dos' = dos
              /\ sub' = [sub EXCEPT ![c] = [st |-> "rejected", it |-> NoItem]]
         ELSE /\ dos' = u
              /\ \E q \in LocalRequests(is_master) :
                   sub' = [sub EXCEPT ![c] =
                             [st |-> "sending",
                              it |-> [id |-> 0, op |-> q.op, arg |-> q.arg,
                                      log |-> q.log, from |-> c,
                                      error |-> FALSE]]]
  /\ UNCHANGED << roleVars, dh, mainVars, wpc, sm, chan, dbVars, updates, sent,
                  syncVars, histVars, saveFailed >>

\* tx.send(..) completes: the channel accepts the item, the sender awaits the reply.
SendAccept(s) ==
  /\ sub[s].st = "sending"
  /\ wpc # "panicked"
  /\ ChanHasRoom(chan)
  /\ LET it == [sub[s].it EXCEPT !.id = Len(accepted) + 1] IN
       /\ chan' = Append(chan, it)
       /\ accepted' = Append(accepted, it.id)
       /\ seqdb' = ExecItem(seqdb, it)
       /\ sub' = [sub EXCEPT ![s] = [st |-> "awaiting", it |-> it]]
  /\ UNCHANGED << roleVars, dosVars, mainVars, wpc, sm, dbVars, updates, sent, syncVars,
                  executed, replied, saveFailed >>

\* The connection goes away while its handler waits on the channel or the reply.
ConnDrop(c) ==
  /\ sub[c].st \in {"sending", "awaiting"}
  /\ sub' = [sub EXCEPT ![c] = [st |-> "dropped", it |-> NoItem]]
  /\ UNCHANGED << roleVars, dosVars, mainVars, wpc, sm, chan, dbVars, updates, sent,
                  syncVars, histVars, saveFailed >>

\* request::process(..).await returns Err (reading the request or writing the
\* response failed): the spawned task prints the error and ends.
ConnIoErr_propagate(c) ==
  /\ sub[c].st \in {"open", "done"}
  /\ sub' = [sub EXCEPT ![c] = [st |-> "ioerr", it |-> NoItem]]
  /\ mpc' = "exited"
  /\ UNCHANGED << roleVars, dosVars, tasks, wpc, sm, chan, dbVars, updates, sent,
                  syncVars, histVars, saveFailed >>

ConnIoErr(c) ==
  /\ sub[c].st \in {"open", "done"}
  /\ sub' = [sub EXCEPT ![c] = [st |-> "ioerr", it |-> NoItem]]
  /\ UNCHANGED << roleVars, dosVars, mainVars, wpc, sm, chan, dbVars, updates, sent,
                  syncVars, histVars, saveFailed >>

\* ----------------------------------------------------------- the sync task
\* sync_loop receives the handshake result from the oneshot.
SyncHandshake ==
  /\ syncSt = "Handshaking"
  /\ sync_ch \in {"new", "old"}
  /\ syncSt' = IF sync_ch = "new" THEN "Bootstrapping" ELSE "Resuming"
  /\ sync_ch' = "taken"
  /\ UNCHANGED << roleVars, dosVars, mainVars, wpc, sm, chan, sub, dbVars, updates, sent,
                  spos, histVars, saveFailed >>

\* A new replica submits the seed of the master's state, not flagged logged.
SyncBootstrapSubmit ==
  /\ syncSt = "Bootstrapping"
  /\ sub[SyncSubmitter].st = "idle"
  /\ sub' = [sub EXCEPT ![SyncSubmitter] =
               [st |-> "sending",
                it |-> [id |-> 0, op |-> SeedQuery.op, arg |-> SeedQuery.arg,
                        log |-> FALSE, from |-> SyncSubmitter,
                        error |-> FALSE]]]
  /\ UNCHANGED << roleVars, dosVars, mainVars, wpc, sm, chan, dbVars, updates, sent,
                  syncVars, histVars, saveFailed >>

\* The seed was applied, or there was nothing to seed: start streaming.
SyncStartStreaming ==
  /\ \/ syncSt = "Bootstrapping" /\ sub[SyncSubmitter].st = "done"
     \/ syncSt = "Resuming"
  /\ syncSt' = "Streaming"
  /\ sub' = [sub EXCEPT ![SyncSubmitter].st = "idle"]
  /\ UNCHANGED << roleVars, dosVars, mainVars, wpc, sm, chan, dbVars, updates, sent,
                  sync_ch, spos, histVars, saveFailed >>

\* The next master log entry is pulled, deserialized and submitted, flagged logged.
SyncPull ==
  /\ syncSt = "Streaming"
  /\ sub[SyncSubmitter].st \in {"idle", "done"}
  /\ spos < MaxStream
  /\ LET q == Deser(MasterLog[spos + 1]) IN
       sub' = [sub EXCEPT ![SyncSubmitter] =
                 [st |-> "sending",
                  it |-> [id |-> 0, op |-> q.op, arg |-> q.arg,
                          log |-> TRUE, from |-> SyncSubmitter,
                          error |-> FALSE]]]
  /\ spos' = spos + 1
  /\ UNCHANGED << roleVars, dosVars, mainVars, wpc, sm, chan, dbVars, updates, sent,
                  sync_ch, syncSt, histVars, saveFailed >>

\* ---------------------------------------------------------- the decay job
\* u_decay_loop: one sweep over the records. Sweeps are followed as long as a
\* connection can still ask for admission; later nothing reads the counters.
DecaySweep ==
  /\ "decay" \in tasks
  /\ dos # DosZero
  /\ \E c \in Conns : sub[c].st \in {"none", "open"}
  /\ dos' = DosDecayRecord(dos)
  /\ UNCHANGED << roleVars, dh, srvVars >>

\* -------------------------------------------------------- the specification
Next ==
  \/ MainSpawnRole
  \/ MainSpawnDecay
  \/ MainSpawnWriter
  \/ MainBind
  \/ MainAccept
  \/ MainAcceptErr
  \/ WriterDbNew
  \/ WriterSyncSend
  \/ WriterRecv
  \/ WriterRun
  \/ WriterLog
  \/ WriterSave
  \/ WriterNotify
  \/ WriterReply
  \/ \E c \in Conns : ConnSubmit(c)
  \/ \E s \in Submitters : SendAccept(s)
  \/ \E c \in Conns : ConnDrop(c)
  \/ \E c \in Conns : ConnIoErr(c)
  \/ SyncHandshake
  \/ SyncBootstrapSubmit
  \/ SyncStartStreaming
  \/ SyncPull
  \/ DecaySweep

Spec == Init /\ [][Next]_vars

\* ------------------------------------------- runs without storage failure
\* db.save() with the storage taking the pages.
WriterSaveOk == WriterSave /\ saveFailed' = FALSE

\* One step of the writer thread.
WriterStep ==
  \/ WriterDbNew
  \/ WriterSyncSend
  \/ WriterRecv
  \/ WriterRun
  \/ WriterLog
  \/ WriterSaveOk
  \/ WriterNotify
  \/ WriterReply

LiveNext ==
  \/ MainSpawnRole
  \/ MainSpawnDecay
  \/ MainSpawnWriter
  \/ MainBind
  \/ MainAccept
  \/ MainAcceptErr
  \/ WriterDbNew
  \/ WriterSyncSend
  \/ WriterRecv
  \/ WriterRun
  \/ WriterLog
  \/ WriterSaveOk
  \/ WriterNotify
  \/ WriterReply
  \/ \E c \in Conns : ConnSubmit(c)
  \/ \E s \in Submitters : SendAccept(s)
  \/ \E c \in Conns : ConnDrop(c)
  \/ \E c \in Conns : ConnIoErr(c)
  \/ SyncHandshake
  \/ SyncBootstrapSubmit
  \/ SyncStartStreaming
  \/ SyncPull
  \/ DecaySweep

\* The writer is an OS thread of its own and runs whenever it can; the
\* channel's semaphore serves the blocked senders in turn.
LiveSpec ==
  /\ Init
  /\ [][LiveNext]_vars
  /\ WF_vars(WriterStep)
  /\ \A s \in Submitters : SF_vars(SendAccept(s))

\* ------------------------------------- the Dos accounting of one client alone
\* A request of the client arrives and is admitted or rejected.
DosRequest ==
  /\ dh.req < MaxReq
  /\ LET u  == DosAdd(dos, EstCost)
         ok == ~DosExceeds(u, dos_limit)
     IN  /\ dos' = IF ok THEN u ELSE dos
         /\ dh' = [dh EXCEPT !.req = @ + 1,
                              !.adm = IF ok THEN @ + 1 ELSE @,
                              !.res = IF ok THEN "admitted" ELSE "rejected",
                              !.base = IF ok THEN u ELSE dos,
                              !.sweeps = 0]
  /\ UNCHANGED << roleVars, srvVars >>

\* An admitted request completes: its observed cost is added to the record.
DosComplete ==
  /\ dh.done < dh.adm
  /\ dh.done < MaxComplete
  /\ \E c \in ActualCosts :
       /\ dos' = DosAdd(dos, c)
       /\ dh' = [dh EXCEPT !.done = @ + 1, !.base = DosAdd(dos, c),
                            !.sweeps = 0, !.quiet = FALSE]
  /\ UNCHANGED << roleVars, srvVars >>

\* The decay job sweeps the record.
DosSweep ==
  /\ dh.sweeps < MaxSweeps
  /\ dos # DosZero
  /\ dos' = DosDecayRecord(dos)
  /\ dh' = [dh EXCEPT !.sweeps = @ + 1, !.quiet = FALSE]
  /\ UNCHANGED << roleVars, srvVars >>

DosInit == args \in DosArgs /\ is_master = TRUE /\ is_new = FALSE /\ InitServer

DosNext ==
  \/ DosRequest
  \/ DosComplete
  \/ DosSweep

DosSpec == DosInit /\ [][DosNext]_vars

\* ------------------------------------------------------------------ claims
Range(f) == { f[i] : i \in DOMAIN f }

IsPrefix(a, b) == Len(a) <= Len(b) /\ \A i \in 1..Len(a) : a[i] = b[i]

\* The writer has taken the item out of the channel and not yet replied.
InProgress == sm.id # 0

\* The step is the writer thread's step out of position p.
WriterLeaves(p) == wpc = p /\ wpc' # p

\* C1: the writer runs the items in exactly the order in which the channel
\* accepted them, and whenever it is back at blocking_recv the database equals
\* the one obtained by running the accepted items one after the other in
\* acceptance order (the items still in the channel left to run).
C1_Serializable ==
  /\ IsPrefix(executed, accepted)
  /\ wpc = "recv" => ApplySeq(mem, chan) = seqdb

\* Two submitters' items were both run, in an order that decides the result:
\* the overwrite first, then the add.
C1_Witness ==
  /\ is_master /\ wpc = "recv" /\ chan = << >>
  /\ Len(executed) = 2
  /\ mem.log = << Ser([op |-> "set", arg |-> 2]), Ser([op |-> "add", arg |-> 1]) >>
  /\ mem.val = 0

\* C2: no item is replied to more than once, only items that were run are
\* replied to, and every item the writer has finished with has its reply sent.
C2_ReplyExactlyOnce ==
  /\ \A i, j \in DOMAIN replied : i # j => replied[i] # replied[j]
  /\ Range(replied) \subseteq Range(executed)
  /\ \A id \in Range(executed) : id # sm.id => id \in Range(replied)

\* Two items were run and each has its reply, the writer is back at recv.
C2_Witness ==
  /\ wpc = "recv" /\ Len(executed) = 2 /\ Len(replied) = 2

\* C3: on the master, the step after the run of an item that is flagged
\* logged and changed the database appends exactly one entry at the end of
\* the log, and the entry deserializes to the item's query; no other step,
\* and no item that is not flagged or changed nothing, changes the log.
C3_MasterLogAppend ==
  [][ is_master =>
        IF WriterLeaves("log") /\ sm.log /\ ~sm.error /\ dirty > 0
          THEN /\ Len(mem'.log) = Len(mem.log) + 1
               /\ SubSeq(mem'.log, 1, Len(mem.log)) = mem.log
               /\ Deser(mem'.log[Len(mem'.log)]) = Qy(sm)
          ELSE mem'.log = mem.log ]_vars

\* The master has logged one changing item and has also run an item that
\* left no entry.
C3_Witness ==
  /\ is_master /\ wpc = "recv"
  /\ Len(executed) = 2 /\ Len(mem.log) = 1
  /\ Deser(mem.log[1]) = [op |-> "add", arg |-> 1]

\* C4 as stated: on a replica no step of the writer changes the log.
C4_ReplicaNeverLogs ==
  [][ ~is_master => mem'.log = mem.log ]_vars

\* C4 as amended: on a replica the log changes only by the writer's log step
\* for an item that is flagged logged and changed the database, and then by
\* exactly the entry of that item at the end; that step does append the entry
\* whenever the log table exists; an item that is not flagged logged, or
\* changed nothing, leaves the log as it is.
C4_ReplicaLogsOnlyFlagged ==
  [][ ~is_master =>
        /\ mem'.log # mem.log =>
              /\ wpc = "log" /\ sm.log /\ ~sm.error /\ dirty > 0
              /\ mem'.log = Append(mem.log, Ser(Qy(sm)))
        /\ (WriterLeaves("log") /\ sm.log /\ ~sm.error /\ dirty > 0
              /\ mem.hasLog) =>
              mem'.log = Append(mem.log, Ser(Qy(sm))) ]_vars

\* A new replica has run the unflagged seed and then a flagged streamed
\* entry: only the second is in its log.
C4_Witness ==
  /\ ~is_master /\ is_new /\ wpc = "recv"
  /\ Len(executed) >= 2 /\ Len(mem.log) = 1

\* C5: while the writer processes an item whose run ended in an error, the
\* file and the log are not changed and no page is reported updated; the
\* reply is sent, carries the error to a waiting caller, and the writer goes
\* back to blocking_recv.
C5_ErrorNoPersist ==
  [][ (InProgress /\ sm.error) =>
        /\ disk' = disk
        /\ mem'.log = mem.log
        /\ wpc = "notify" => (updates = 0 /\ mem = pre)
        /\ WriterLeaves("reply") =>
             /\ wpc' = "recv"
             /\ replied' = Append(replied, sm.id)
             /\ ReplyRxAlive(sm) => sub'[sm.from].it.error ]_vars

\* A caller holds the error of the first item, and the writer has since
\* run and answered a second item.
C5_Witness ==
  /\ \E c \in Conns : sub[c].st = "done" /\ sub[c].it.error /\ sub[c].it.id = 1
  /\ Len(replied) = 2 /\ wpc = "recv"

C7_NotifyIffUpdated ==
  [][ /\ wpc' = "reply" => ((sent' # "none") <=> (updates' > 0))
      /\ (sent' # sent /\ sent' # "none") => wpc = "notify"
      /\ (WriterLeaves("reply") /\ sent = "err") =>
           (wpc' = "recv" /\ replied' = Append(replied, sm.id)) ]_vars

\* The writer is about to reply for an item whose broadcast found no receiver.
C7_Witness ==
  wpc = "reply" /\ sent = "err" /\ updates > 0

\* C8: the channel never holds more than ChanCap (one) item, and a sender
\* gets past its send only in a step that starts with room in the channel.
C8_QueueBounded ==
  [][ /\ Len(chan') <= ChanCap
      /\ \A s \in Submitters :
           (sub[s].st = "sending" /\ sub'[s].st = "awaiting") =>
             Len(chan) < ChanCap ]_vars

\* One item waits in the channel and another submitter is blocked in send.
C8_Witness ==
  /\ Len(chan) = ChanCap
  /\ \E s \in Submitters : sub[s].st = "sending"

\* C9: every accepted item stays in the channel until the writer takes it and
\* is then run, whatever becomes of its submitter; with the submitter gone the
\* item is run, logged and saved like any other, and the reply step changes
\* nothing but the reply count and returns to blocking_recv.
C9_DropDoesNotCancel ==
  [][ /\ Range(accepted') \subseteq
           (Range(executed') \cup { chan'[i].id : i \in DOMAIN chan' } \cup {sm'.id})
      /\ (wpc' = "reply" /\ sub'[sm'.from].st = "dropped") =>
           ApplySeq(mem', chan') = seqdb'
      /\ (WriterLeaves("reply") /\ sub[sm.from].st = "dropped") =>
           /\ wpc' = "recv"
           /\ replied' = Append(replied, sm.id)
           /\ sub' = sub
           /\ mem' = mem /\ disk' = disk ]_vars

\* The writer has run, logged and saved the item of a connection that was
\* dropped after the channel had accepted the item.
C9_Witness ==
  /\ wpc = "reply" /\ sub[sm.from].st = "dropped"
  /\ sm.log /\ updates > 0 /\ disk = mem

\* C10 as stated: on a replica no connection is handed to request processing
\* before the sync task has finished the handshake and, for a new database,
\* the bootstrap.
C10_NoServeBeforeSync ==
  ~is_master => \A c \in Conns : sub[c].st # "none" => syncSt = "Streaming"

\* C11: the set of background jobs is fixed at startup by the role and never
\* changes afterwards: a master runs the email and the sleep job and neither
\* the sync job nor the handshake send; a replica runs the sync job and
\* neither the email nor the sleep job; the decay job and the writer thread
\* run in both roles.
RoleJobs == {"email", "sleep", "sync"}

Spawning == {"spawn_role", "spawn_decay", "spawn_writer"}

C11_RoleJobs ==
  [][ /\ mpc' # "spawn_role" =>
           tasks' \cap RoleJobs = (IF is_master THEN {"email", "sleep"}
                                                ELSE {"sync"})
      /\ mpc' \notin Spawning => {"decay", "writer"} \subseteq tasks'
      /\ mpc \notin Spawning => tasks' = tasks
      /\ tasks \subseteq tasks'
      /\ is_master => (sync_ch' = "empty" /\ syncSt' = "Uninitialized"
                        /\ wpc' # "syncsend")
      /\ (~is_master /\ wpc = "dbnew") => wpc' \in {"dbnew", "syncsend"} ]_vars

C11_Witness ==
  /\ ~is_master
  /\ mpc = "accept"
  /\ tasks = {"sync", "decay", "writer"}
  /\ sync_ch = "taken"
  /\ Len(executed) > 0

\* C12: an I/O error on one connection ends the handling of that connection
\* only: main stays in its accept loop, every other submitter and the channel
\* are untouched, the writer thread keeps its position and its database; and
\* main never leaves the accept loop in a step of a connection.
C12_IoErrorIsolated ==
  [][ /\ \A c \in Conns :
           (sub'[c].st = "ioerr" /\ sub[c].st # "ioerr") =>
             /\ mpc' = mpc /\ tasks' = tasks
             /\ wpc' = wpc /\ sm' = sm /\ chan' = chan
             /\ mem' = mem /\ disk' = disk
             /\ \A s \in Submitters \ {c} : sub'[s] = sub[s]
      /\ (mpc = "accept" /\ mpc' # "accept") => sub' = sub
      /\ (wpc' = "panicked" /\ wpc # "panicked") => sub' = sub ]_vars

C12_Witness ==
  /\ mpc = "accept"
  /\ wpc = "recv"
  /\ sub[1].st = "ioerr"
  /\ sub[2].st = "done"
  /\ Len(replied) = 1

\* C13: a request is rejected exactly if, with the request counted, one of the
\* client's four counters (request count, bytes read, cpu, bytes written) is
\* over its limit, and a rejected request leaves the record alone; hence with
\* the request-count limit T = args.dos_count and neither completion nor sweep
\* so far, the client's request number n is admitted exactly if n <= T: the
\* first T requests are admitted and request T + 1 is rejected.
C13_DosAdmission ==
  [][ dh'.req = dh.req + 1 =>
        /\ (dh'.res = "rejected") <=>
              \/ dos[1] + 1 > args.dos_count
              \/ dos[2] > args.dos_read
              \/ dos[3] > args.dos_cpu
              \/ dos[4] > args.dos_write
        /\ dh'.res \in {"admitted", "rejected"}
        /\ dh'.res = "rejected" => dos' = dos
        /\ dh'.res = "admitted" => dos' = [dos EXCEPT ![1] = @ + 1]
        /\ dh'.quiet => ((dh'.res = "admitted") <=> (dh'.req <= args.dos_count))
    ]_vars

C13_Witness ==
  /\ dh.quiet
  /\ args.dos_count = MaxDosLimit
  /\ args.dos_read < args.dos_count
  /\ dh.req = args.dos_count + 1
  /\ dh.adm = args.dos_count
  /\ dh.res = "rejected"

\* C14: a request rejected by the Dos admission never enters the channel: the
\* rejecting step leaves the channel, the acceptance order, the writer thread,
\* the database, the file and the broadcast as they are, the connection stays
\* rejected ever after, and no message in the channel or in the writer's hands
\* comes from a rejected connection.
FromRejected(sb, it) == it.from \in Conns /\ sb[it.from].st = "rejected"

C14_RejectedNeverQueued ==
  [][ /\ \A c \in Conns :
           /\ (sub'[c].st = "rejected" /\ sub[c].st # "rejected") =>
                 /\ sub[c].st = "open"
                 /\ DosExceeds(DosAdd(dos, EstCost), dos_limit)
                 /\ chan' = chan /\ accepted' = accepted /\ seqdb' = seqdb
                 /\ wpc' = wpc /\ sm' = sm /\ executed' = executed
                 /\ mem' = mem /\ disk' = disk /\ pre' = pre
                 /\ sent' = sent /\ updates' = updates /\ replied' = replied
           /\ sub[c].st = "rejected" => sub'[c] = sub[c]
      /\ \A i \in DOMAIN chan' : ~FromRejected(sub', chan'[i])
      /\ ~FromRejected(sub', sm') ]_vars

C14_Witness ==
  /\ sub[2].st = "rejected"
  /\ sub[1].st = "done"
  /\ wpc = "recv"
  /\ chan = << >>
  /\ Len(accepted) = 1
  /\ Len(executed) = 1

\* C15: the counters of a record are never negative; after D sweeps in a row
\* with neither request nor completion in between, a counter that stood at V
\* stands at max(0, V - D * step); and a request of a client whose request
\* count is below the limit T (and whose other counters are within theirs) is
\* admitted, also after an earlier rejection at T.
Max0(n) == IF n > 0 THEN n ELSE 0

C15_DecayToZero ==
  [][ /\ \A i \in Counters :
           /\ dos'[i] >= 0
           /\ dos'[i] = Max0(dh'.base[i] - dh'.sweeps * DosDecayStep)
      /\ (dh'.req = dh.req + 1 /\ dos[1] < args.dos_count
            /\ dos[2] <= args.dos_read /\ dos[3] <= args.dos_cpu
            /\ dos[4] <= args.dos_write) => dh'.res = "admitted"
      /\ (dh'.req = dh.req + 1 /\ dos[1] >= args.dos_count)
            => dh'.res = "rejected" ]_vars

C15_Witness ==
  /\ dh.done = 0
  /\ dh.adm = args.dos_count + 1
  /\ dh.req = dh.adm + 1
  /\ dh.res = "admitted"
  /\ dos[1] = args.dos_count

\* C16: a replica applies the master's log entries through its own writer
\* thread in the master's commit order, none skipped, doubled or reordered:
\* whenever the sync task has the replies to entries 1..k, the replica's
\* database equals the master's after its first k committed operations, and
\* its log holds the master's first k rows in the master's order.
MasterBase == [val |-> SeedQuery.arg % ValMod, log |-> << >>, hasLog |-> TRUE]

MasterItems(k) ==
  [i \in 1..k |-> [NoItem EXCEPT !.op = Deser(MasterLog[i]).op,
                                 !.arg = Deser(MasterLog[i]).arg,
                                 !.log = TRUE]]

MasterState(k) == ApplySeq(MasterBase, MasterItems(k))

C16_ReplicaFollowsMaster ==
  (~is_master /\ syncSt = "Streaming" /\ sub[SyncSubmitter].st \in {"idle", "done"})
    => /\ mem = MasterState(spos)
       /\ mem.log = SubSeq(MasterLog, 1, spos)
       /\ Len(mem.log) = Len(MasterState(spos).log)
       /\ MasterState(spos).log = SubSeq(MasterLog, 1, spos)

C16_Witness ==
  /\ ~is_master
  /\ is_new
  /\ syncSt = "Streaming"
  /\ spos = MaxStream
  /\ sub[SyncSubmitter].st = "done"
  /\ Len(mem.log) = MaxStream
  /\ \E c \in Conns : sub[c].st = "done"

\* C17: in runs without storage failure, with the writer thread running
\* whenever it can and the channel serving blocked senders in turn, every
\* accepted work item is eventually dequeued, run and replied to, and every
\* submitter waiting on the full channel is eventually accepted (unless its
\* connection goes away first).
ItemIds == 1..(MaxSubmitters + MaxStream + 1)

C17_EventuallyReplied ==
  /\ \A n \in ItemIds :
       (Len(accepted) >= n) ~> (n \in Range(executed) /\ n \in Range(replied))
  /\ \A s \in Submitters :
       (sub[s].st = "sending") ~> (sub[s].st \in {"awaiting", "done", "dropped"})
  /\ (sub[SyncSubmitter].st = "sending") ~> (sub[SyncSubmitter].st = "done")

C17_Witness ==
  /\ ~saveFailed
  /\ wpc = "recv"
  /\ chan = << >>
  /\ Len(accepted) >= 3
  /\ Len(replied) = Len(accepted)

\* C18: a replica's startup goes Uninitialized, Handshaking, then
\* Bootstrapping or Resuming, then Streaming, never back and never past a
\* state; the handshake result is put into the oneshot exactly once, by the
\* writer thread, before the writer thread receives its first work item;
\* Bootstrapping is entered exactly if the result says the database is new
\* (db.is_new), Resuming otherwise.
SyncEdges ==
  { << "Uninitialized", "Handshaking" >>, << "Handshaking", "Bootstrapping" >>,
    << "Handshaking", "Resuming" >>, << "Bootstrapping", "Streaming" >>,
    << "Resuming", "Streaming" >> }

C18_ReplicaStartup ==
  [][ /\ syncSt' # syncSt => << syncSt, syncSt' >> \in SyncEdges
      /\ sync_ch' # sync_ch =>
            \/ /\ sync_ch = "empty"
               /\ wpc = "syncsend"
               /\ sync_ch' = (IF is_new THEN "new" ELSE "old")
               /\ executed = << >> /\ sm = NoItem
            \/ /\ sync_ch \in {"new", "old"}
               /\ sync_ch' = "taken"
               /\ syncSt = "Handshaking"
               /\ syncSt' = (IF sync_ch = "new" THEN "Bootstrapping" ELSE "Resuming")
      /\ (syncSt = "Handshaking" /\ syncSt' # syncSt) =>
            /\ sync_ch \in {"new", "old"}
            /\ (syncSt' = "Bootstrapping") <=> is_new
            /\ (syncSt' = "Resuming") <=> ~is_new
      /\ (~is_master /\ (sm'.id # 0 \/ executed' # << >>)) => sync_ch' # "empty"
      /\ (~is_master /\ wpc' \notin {"unstarted", "dbnew", "syncsend"})
            => sync_ch' # "empty" ]_vars

C18_Witness ==
  /\ ~is_master
  /\ ~is_new
  /\ syncSt = "Streaming"
  /\ sync_ch = "taken"
  /\ spos = 1
  /\ wpc = "run"
  /\ sm.from = SyncSubmitter

\* C19: the log row of a work item is inserted before the save of that item
\* and reaches the file in the same save as the item's changes: the file
\* changes only in a save of the writer thread (and when the schema of a new
\* master is created), it then holds the database as of the end of an item,
\* and for an item flagged logged on a database with a log table the save
\* brings the item's change exactly if it brings the item's log row, which is
\* the serialized query at the end of the log.
C19_LogAndChangeTogether ==
  [][ /\ disk' # disk =>
            \/ wpc = "dbnew" /\ disk' = DbNew(disk, is_master, is_new)
            \/ /\ wpc = "save" /\ wpc' = "notify"
               /\ disk' = mem
               /\ disk' = ExecItem(pre, sm)
               /\ (disk'.log # pre.log) =>
                     /\ sm.log
                     /\ disk'.log = Append(pre.log, Ser(Qy(sm)))
                     /\ [disk' EXCEPT !.log = pre.log] # pre
               /\ (sm.log /\ pre.hasLog /\ [disk' EXCEPT !.log = pre.log] # pre)
                     => disk'.log = Append(pre.log, Ser(Qy(sm)))
      /\ (WriterLeaves("save") /\ LogCond(sm, err, dirty - 1) /\ pre.hasLog) =>
            /\ mem.log = Append(pre.log, Ser(Qy(sm)))
            /\ disk'.log \in {disk.log, mem.log} ]_vars

C19_Witness ==
  /\ is_master
  /\ wpc = "notify"
  /\ sm.log
  /\ updates > 1
  /\ disk = mem
  /\ Len(disk.log) = 2

\* C20: the writer thread takes each work item through run, log insert, save,
\* broadcast and reply in this order, each effect in its own step, and takes
\* the next item only after the reply to the current one; when the reply is
\* sent the save of the item has returned (no unsaved change is left, and the
\* file equals the database unless a save failed to reach the storage) and,
\* if the save updated pages, the broadcast has been made.
WriterEdges ==
  { << "unstarted", "dbnew" >>, << "dbnew", "recv" >>, << "dbnew", "syncsend" >>,
    << "syncsend", "recv" >>, << "recv", "run" >>, << "run", "log" >>,
    << "log", "save" >>, << "save", "notify" >>, << "save", "panicked" >>,
    << "notify", "reply" >>, << "reply", "recv" >> }

C20_StepOrder ==
  [][ /\ wpc' # wpc => << wpc, wpc' >> \in WriterEdges
      /\ executed' # executed =>
            (wpc = "run" /\ wpc' = "log" /\ executed' = Append(executed, sm.id))
      /\ mem'.log # mem.log => (wpc = "log" /\ wpc' = "save")
      /\ (disk' # disk /\ wpc # "dbnew") => (wpc = "save" /\ wpc' = "notify")
      /\ (sent' # sent /\ sent' # "none") => (wpc = "notify" /\ wpc' = "reply")
      /\ replied' # replied =>
            (wpc = "reply" /\ wpc' = "recv" /\ replied' = Append(replied, sm.id))
      /\ (sm'.id # sm.id /\ sm'.id # 0) =>
            (wpc = "recv" /\ sm = NoItem /\ Len(replied) = Len(executed))
      /\ Len(replied') <= Len(executed') /\ Len(executed') <= Len(replied') + 1
      /\ WriterLeaves("reply") =>
            /\ sm.id = executed[Len(executed)]
            /\ dirty = 0 /\ ~err /\ mem = pre
            /\ ~saveFailed => disk = mem
            /\ updates > 0 => sent # "none"
            /\ ReplyRxAlive(sm) => sub'[sm.from].st = "done" ]_vars

C20_Witness ==
  /\ wpc = "reply"
  /\ updates > 0
  /\ sent = "ok"
  /\ ReplyRxAlive(sm)
  /\ ~saveFailed
  /\ disk = mem
  /\ chan # << >>

====
